---- MODULE Spec2Model ----
(***************************************************************************)
(* Model of the agentic tool-calling loop of the voice assistant:          *)
(*   agent.py  VoiceAgent (conversation history, process_user_input)       *)
(*   tools.py  ToolBox, TOOL_SCHEMAS, get_tool_function                    *)
(* Python values are modelled as follows: str is a TLA+ string, None is    *)
(* the string None below, a dict is a record or a sequence of key/value    *)
(* pairs, a list is a sequence, an exception is a record [type, msg].      *)
(***************************************************************************)
EXTENDS Integers, Sequences, FiniteSets, TLC

VARIABLES
    MAX_AGENT_ITERATIONS,  \* Config.MAX_AGENT_ITERATIONS (config.py)
    max_history,           \* VoiceAgent.max_history
    system_prompt,         \* VoiceAgent.system_prompt
    conversation_history,  \* VoiceAgent.conversation_history
    backend,               \* the tool-call lists the (mocked) model backend may request
    pc,                    \* position of process_user_input: idle, loop, awaiting, dispatch
    iteration,             \* local variable iteration of process_user_input
    model_calls,           \* number of chat.completions.create calls made by the current turn
    finish_log,            \* outcome of each model call of the current turn, in order
    tool_calls,            \* assistant_message.tool_calls of the current iteration
    tc_index,              \* position of the for loop over tool_calls (1-based)
    outcome,               \* how the last call of process_user_input ended: none, returned, raised
    returned,              \* the value returned by the last call of process_user_input
    second,                \* the frame of a second, concurrent call of process_user_input
    stream,                \* the frame of a call of process_user_input_streaming
    gui                    \* the VoiceAssistantGUI object of main_gui.py and its threads

vars == <<MAX_AGENT_ITERATIONS, max_history, system_prompt, conversation_history, backend, pc, iteration,
          model_calls, finish_log, tool_calls, tc_index, outcome, returned, second,
          stream, gui>>

-----------------------------------------------------------------------------
(* Bounds of the model *)

MaxMaxHistory == 2      \* max_history is drawn from 0..MaxMaxHistory
MaxLen == 4             \* a public call is made only while the history is at most this long
MaxConfigured == 6      \* MAX_AGENT_ITERATIONS is configured from 1..MaxConfigured
MaxChunks == 2          \* a stream delivers at most this many chunks
MaxThreads == 3         \* the microphone button starts at most this many threads

(* Python's None *)
None == "None"

-----------------------------------------------------------------------------
(* Fixed strings of agent.py *)

max_iterations == 5
default_max_history == 20

(* The default of Config.MAX_AGENT_ITERATIONS in config.py *)
default_MAX_AGENT_ITERATIONS == 5

default_system_prompt == "You are a helpful, friendly AI voice assistant."
not_sure_response == "I'm not sure how to respond to that."
fallback == "I apologize, but I encountered an issue processing your request."
error_response == "I'm sorry, I encountered an error while processing your request."
timeout_response == "I apologize, but I'm having trouble completing that request."

-----------------------------------------------------------------------------
(* Inputs *)

Prompts == {"You are a test assistant."}
UserInputs == {"What time is it?"}
FinalTexts == {"It's 2:30 PM."}
AddRoles == {"user", "assistant"}

-----------------------------------------------------------------------------
(* json.loads on the argument blobs the backend sends.  A parsed value is  *)
(* [type, keys, values]: the Python type of the value and, for a dict, its *)
(* keys and the value of each key.  Every value inside a dict of ArgBlobs  *)
(* is a JSON string.                                                       *)

ArgBlobs == {"{}", "{\"command\": \"ls\"}", "{\"command\": \"rm -rf /\"}",
             "{\"query\": \"tla\", \"num_results\": \"many\"}", "[]", "null", "{bad",
             "{\"location\": \"London\"}", "{\"query\": \"tla\"}",
             "{\"expression\": \"2 + 2\"}"}

NoValues == [k \in {} |-> ""]
Parsed(type, values) == [type |-> type, keys |-> DOMAIN values, values |-> values]

Exc(type, msg) == [type |-> type, msg |-> msg]
Ok(value) == [raised |-> FALSE, value |-> value, exc |-> Exc(None, None)]
Raise(type, msg) == [raised |-> TRUE, value |-> None, exc |-> Exc(type, msg)]

json_loads(raw) ==
    CASE raw = "{}" -> Ok(Parsed("dict", NoValues))
      [] raw = "{\"command\": \"ls\"}" -> Ok(Parsed("dict", [k \in {"command"} |-> "ls"]))
      [] raw = "{\"command\": \"rm -rf /\"}" ->
             Ok(Parsed("dict", [k \in {"command"} |-> "rm -rf /"]))
      [] raw = "{\"query\": \"tla\", \"num_results\": \"many\"}" ->
             Ok(Parsed("dict", [k \in {"query", "num_results"} |->
                                   IF k = "query" THEN "tla" ELSE "many"]))
      [] raw = "{\"location\": \"London\"}" ->
             Ok(Parsed("dict", [k \in {"location"} |-> "London"]))
      [] raw = "{\"query\": \"tla\"}" -> Ok(Parsed("dict", [k \in {"query"} |-> "tla"]))
      [] raw = "{\"expression\": \"2 + 2\"}" ->
             Ok(Parsed("dict", [k \in {"expression"} |-> "2 + 2"]))
      [] raw = "[]" -> Ok(Parsed("list", NoValues))
      [] raw = "null" -> Ok(Parsed("NoneType", NoValues))
      [] OTHER -> Raise("JSONDecodeError", "Expecting property name enclosed in double quotes")

(* json.dumps: a dict is a sequence of <<key, rendered value>> pairs (in   *)
(* insertion order), a list a sequence of rendered values.                 *)
json_str(s) == "\"" \o s \o "\""

RECURSIVE join(_, _)
join(parts, sep) ==
    IF Len(parts) = 0 THEN ""
    ELSE IF Len(parts) = 1 THEN parts[1]
    ELSE parts[1] \o sep \o join(Tail(parts), sep)

Dict(items) == [type |-> "dict", items |-> items]
List(items) == [type |-> "list", items |-> items]

json_dumps(obj) ==
    IF obj.type = "dict"
    THEN "{" \o join([i \in 1..Len(obj.items) |->
                        json_str(obj.items[i][1]) \o ": " \o obj.items[i][2]], ", ") \o "}"
    ELSE "[" \o join(obj.items, ", ") \o "]"

-----------------------------------------------------------------------------
(* tools.py *)

(* The names of TOOL_SCHEMAS, in order *)
TOOL_SCHEMAS == <<"get_current_time", "get_current_weather", "search_web",
                  "get_system_info", "calculate">>

SchemaNames == {TOOL_SCHEMAS[i] : i \in 1..Len(TOOL_SCHEMAS)}

(* The "parameters" of each schema: the string-typed properties, the       *)
(* properties of another type, and the required ones                       *)
SchemaParameters ==
    "get_current_time" :> [strings |-> {"timezone"}, others |-> {}, required |-> {}] @@
    "get_current_weather" :>
        [strings |-> {"location", "unit"}, others |-> {}, required |-> {"location"}] @@
    "search_web" :> [strings |-> {"query"}, others |-> {"num_results"}, required |-> {"query"}] @@
    "get_system_info" :> [strings |-> {}, others |-> {}, required |-> {}] @@
    "calculate" :> [strings |-> {"expression"}, others |-> {}, required |-> {"expression"}]

(* Mutant: class ToolBox without the method calculate *)
ToolBox_without_calculate ==
    "get_current_time" :> [params |-> {"timezone"}, required |-> {}] @@
    "get_current_weather" :> [params |-> {"location", "unit"}, required |-> {"location"}] @@
    "search_web" :> [params |-> {"query", "num_results"}, required |-> {"query"}] @@
    "get_system_info" :> [params |-> {}, required |-> {}] @@
    "execute_system_command" :> [params |-> {"command"}, required |-> {"command"}] @@
    "__subclasses__" :> [params |-> {}, required |-> {}]

(* The attributes of class ToolBox that the model covers: its six static   *)
(* methods with their parameters, and one attribute every class inherits   *)
(* from type.  params are the keyword parameters, required those without a *)
(* default.                                                                *)
Method(params, required) == [params |-> params, required |-> required]

ToolBox ==
    "get_current_time" :> Method({"timezone"}, {}) @@
    "get_current_weather" :> Method({"location", "unit"}, {"location"}) @@
    "search_web" :> Method({"query", "num_results"}, {"query"}) @@
    "get_system_info" :> Method({}, {}) @@
    "execute_system_command" :> Method({"command"}, {"command"}) @@
    "calculate" :> Method({"expression"}, {"expression"}) @@
    "__subclasses__" :> Method({}, {})

(* getattr(ToolBox, function_name) *)
get_tool_function(function_name) ==
    IF function_name \in DOMAIN ToolBox
    THEN Ok(function_name)
    ELSE Raise("AttributeError",
               "type object 'ToolBox' has no attribute '" \o function_name \o "'")

(* Mutant: execute_system_command runs the command and reports success    *)
ToolBody_command_enabled(name, kw) ==
    IF name = "execute_system_command"
    THEN Ok(Dict(<< <<"status", json_str("success")>>, <<"command", json_str(kw["command"])>>,
                    <<"output", json_str("")>> >>))
    ELSE Ok(Dict(<< <<"status", json_str("success")>> >>))

(* The bodies of the ToolBox methods, on the keyword arguments kw (a       *)
(* function from parameter names to values).  The clock and the platform   *)
(* are fixed values.                                                       *)
ToolBody(name, kw) ==
    CASE name = "get_current_time" ->
            Ok(Dict(<< <<"status", json_str("success")>>, <<"time", json_str("14:30:00")>>,
                       <<"date", json_str("2026-01-07")>>,
                       <<"day_of_week", json_str("Wednesday")>>,
                       <<"timezone", json_str("local")>> >>))
      [] name = "get_current_weather" ->
            Ok(Dict(<< <<"status", json_str("success")>>, <<"location", json_str("London")>>,
                       <<"temperature", "22">>, <<"unit", json_str("celsius")>> >>))
      [] name = "search_web" ->
            \* min(num_results, 3) on a str argument
            IF "num_results" \in DOMAIN kw
            THEN Raise("TypeError", "'<' not supported between instances of 'int' and 'str'")
            ELSE Ok(Dict(<< <<"status", json_str("success")>>, <<"query", json_str("tla")>>,
                            <<"results", "[]">> >>))
      [] name = "get_system_info" ->
            Ok(Dict(<< <<"status", json_str("success")>>, <<"system", json_str("Linux")>> >>))
      [] name = "execute_system_command" ->
            Ok(Dict(<< <<"status", json_str("error")>>,
                       <<"message", json_str("System command execution is disabled for security reasons.")>>,
                       <<"command", json_str(kw["command"])>> >>))
      [] name = "calculate" ->
            Ok(Dict(<< <<"status", json_str("success")>>, <<"expression", json_str("2 + 2")>>,
                       <<"result", "4">> >>))
      [] OTHER -> Ok(List(<< >>))       \* type.__subclasses__(ToolBox)

(* Mutant: arguments that are no mapping are dropped and the tool is      *)
(* called without keyword arguments                                        *)
Call_ignoring_non_mapping(name, args) ==
    IF args.type # "dict" THEN ToolBody(name, NoValues)
    ELSE IF ~(args.keys \subseteq ToolBox[name].params)
    THEN Raise("TypeError", "ToolBox." \o name \o "() got an unexpected keyword argument")
    ELSE IF ~(ToolBox[name].required \subseteq args.keys)
    THEN Raise("TypeError", "ToolBox." \o name \o "() missing 1 required positional argument")
    ELSE ToolBody(name, args.values)

(* Calling tool_function with function_args unpacked as keyword arguments: *)
(* the call protocol, then the body                                        *)
Call(name, args) ==
    IF args.type # "dict"
    THEN Raise("TypeError", "ToolBox." \o name \o "() argument after ** must be a mapping, not "
                            \o args.type)
    ELSE IF ~(args.keys \subseteq ToolBox[name].params)
    THEN Raise("TypeError", "ToolBox." \o name \o "() got an unexpected keyword argument")
    ELSE IF ~(ToolBox[name].required \subseteq args.keys)
    THEN Raise("TypeError", "ToolBox." \o name \o "() missing 1 required positional argument")
    ELSE ToolBody(name, args.values)

-----------------------------------------------------------------------------
(* agent.py: messages and the history *)

(* Mutant: a test for None instead of a truth test *)
Truthy_is_not_none(x) == x # None

(* Python truth of an Optional[str] *)
Truthy(x) == x # None /\ x # ""


Message(role, content, name, tcs, tool_call_id) ==
    [role |-> role, content |-> content, name |-> name,
     tool_calls |-> tcs, tool_call_id |-> tool_call_id]

SystemMessage(prompt) == Message("system", prompt, None, << >>, None)

(* Python slice h[-n:] *)
PySuffix(h, n) ==
    IF n = 0 THEN h
    ELSE SubSeq(h, (IF Len(h) > n THEN Len(h) - n ELSE 0) + 1, Len(h))

(* Mutant: the trim keeps one message less than max_history *)
add_message_off_by_one(history, M, role, content, name) ==
    LET message == Message(role, content, IF Truthy(name) THEN name ELSE None, << >>, None)
        appended == Append(history, message)
    IN IF Len(appended) > M + 1
       THEN <<appended[1]>> \o PySuffix(appended, IF M > 1 THEN M - 1 ELSE M)
       ELSE appended

(* Mutant: the trim keeps the oldest messages instead of the newest *)
add_message_keep_oldest(history, M, role, content, name) ==
    LET message == Message(role, content, IF Truthy(name) THEN name ELSE None, << >>, None)
        appended == Append(history, message)
    IN IF Len(appended) > M + 1
       THEN SubSeq(appended, 1, M + 1)
       ELSE appended

(* VoiceAgent.add_message: the history after the call *)
add_message(history, M, role, content, name) ==
    LET message == Message(role, content, IF Truthy(name) THEN name ELSE None, << >>, None)
        appended == Append(history, message)
    IN IF Len(appended) > M + 1
       THEN <<appended[1]>> \o PySuffix(appended, M)
       ELSE appended

-----------------------------------------------------------------------------
(* The model backend.  A backend is the set of tool-call lists it may ask  *)
(* for; every backend may also stop, stop without text, end for another    *)
(* finish reason, answer tool_calls with an empty list or with no list     *)
(* (tool_calls is None), or fail.                                          *)

Request(name, arguments) == [name |-> name, arguments |-> arguments]

GoodCall == Request("get_current_time", "{}")
RaisingCall == Request("search_web", "{\"query\": \"tla\", \"num_results\": \"many\"}")

Backends ==
    { {<<GoodCall>>,
       <<RaisingCall, Request("get_current_weather", "{\"location\": \"London\"}")>>},
      {<<Request("fly_to_moon", "{}")>>,
       <<Request("calculate", "{\"expression\": \"2 + 2\"}"), Request("fly_to_moon", "[]")>>},
      {<<Request("get_current_time", "[]")>>,
       <<Request("get_current_time", "null"), Request("get_system_info", "{}")>>},
      {<<Request("search_web", "{\"query\": \"tla\"}")>>,
       <<Request("get_current_time", "{bad"), GoodCall>>},
      {<<Request("execute_system_command", "{\"command\": \"ls\"}")>>,
       <<Request("__subclasses__", "{}"),
         Request("execute_system_command", "{\"command\": \"rm -rf /\"}")>>} }

ToolCall(id, name, arguments) ==
    [id |-> id, type |-> "function", function |-> [name |-> name, arguments |-> arguments]]

CallId(i, k) == "call_" \o ToString(i) \o "_" \o ToString(k)

WithIds(requests, i) ==
    [k \in 1..Len(requests) |-> ToolCall(CallId(i, k), requests[k].name, requests[k].arguments)]

Completion(finish_reason, content, tcs) ==
    [finish_reason |-> finish_reason, content |-> content, tool_calls |-> tcs]

(* A completion whose message has tool_calls = None: the record has no     *)
(* tool_calls field                                                        *)
CompletionWithoutToolCalls(finish_reason, content) ==
    [finish_reason |-> finish_reason, content |-> content]

(* The Python truth of assistant_message.tool_calls: neither None nor an   *)
(* empty list                                                              *)
has_tool_calls(response) ==
    "tool_calls" \in DOMAIN response /\ response.tool_calls # << >>

Completions(b, i) ==
    {Completion("tool_calls", None, WithIds(l, i)) : l \in b}
    \cup {Completion("tool_calls", None, << >>), CompletionWithoutToolCalls("tool_calls", None)}
    \cup {Completion("stop", c, << >>) : c \in FinalTexts \cup {"", None}}
    \cup {Completion("length", "It's 2", << >>)}

LogEntry(finish_reason, n) == [finish_reason |-> finish_reason, n_tool_calls |-> n]

(* The number of tool calls a completion asks for *)
NumToolCalls(response) ==
    IF has_tool_calls(response) THEN Len(response.tool_calls) ELSE 0

(* The classes the except clauses of process_user_input catch: both are    *)
(* "except Exception".                                                     *)
ExceptionClasses == {"AttributeError", "TypeError", "JSONDecodeError", "APIError"}

(* Mutants: except clauses that name one class only *)
inner_except_attribute_error(exc) == exc.type = "AttributeError"
outer_except_api_error(exc) == exc.type = "APIError"

inner_except(exc) == exc.type \in ExceptionClasses
outer_except(exc) == exc.type \in ExceptionClasses

(* Lines 162-172: the inner try of one tool call, given the parsed          *)
(* arguments.  The value is result_str, or the exception that escapes.     *)
execute_tool(function_name, function_args) ==
    LET tool_function == get_tool_function(function_name)
        function_result == IF tool_function.raised THEN tool_function
                           ELSE Call(tool_function.value, function_args)
    IN IF ~function_result.raised
       THEN Ok(json_dumps(function_result.value))
       ELSE IF inner_except(function_result.exc)
       THEN Ok(json_dumps(Dict(<< <<"status", json_str("error")>>,
                                  <<"error", json_str(function_result.exc.msg)>> >>)))
       ELSE function_result

(* Mutant: the tool message carries no tool_call_id *)
tool_call_step_without_id(tool_call) ==
    LET function_name == tool_call.function.name
        function_args == json_loads(tool_call.function.arguments)
    IN IF function_args.raised THEN function_args
       ELSE LET result_str == execute_tool(function_name, function_args.value)
            IN IF result_str.raised THEN result_str
               ELSE Ok(Message("tool", result_str.value, function_name, << >>, None))

(* Lines 155-180: one pass of the for loop.  The value is the tool message *)
(* to append, or the exception that leaves the for loop.                   *)
tool_call_step(tool_call) ==
    LET function_name == tool_call.function.name
        function_args == json_loads(tool_call.function.arguments)
    IN IF function_args.raised THEN function_args
       ELSE LET result_str == execute_tool(function_name, function_args.value)
            IN IF result_str.raised THEN result_str
               ELSE Ok(Message("tool", result_str.value, function_name, << >>, tool_call.id))

-----------------------------------------------------------------------------
(* State machine *)

(* VoiceAgent.__init__, and no call of process_user_input made yet *)
InitFields ==
    /\ max_history \in (0..MaxMaxHistory) \cup {default_max_history}
    /\ system_prompt = default_system_prompt
    /\ conversation_history = <<SystemMessage(default_system_prompt)>>
    /\ pc = "idle"
    /\ iteration = 0
    /\ model_calls = 0
    /\ finish_log = << >>
    /\ tool_calls = << >>
    /\ tc_index = 0
    /\ outcome = "none"
    /\ returned = None

(* The agent, and the backend its client talks to *)
InitAgent ==
    /\ InitFields
    /\ backend \in Backends

(* The locals of a call of process_user_input that has not started *)
NotStarted ==
    [pc |-> "idle", iteration |-> 0, tool_calls |-> << >>, tc_index |-> 0,
     outcome |-> "none", returned |-> None]

(* The generator of process_user_input_streaming before its first step *)
StreamNotStarted == [pc |-> "idle", full_response |-> "", yielded |-> << >>]

(* VoiceAssistantGUI.__init__ (main_gui.py 49-51) and the widgets built by  *)
(* _build_gui; threads holds the position of each thread the microphone    *)
(* button has started, in the order of their start                         *)
GuiConstructed ==
    [is_listening |-> FALSE, processing_thread |-> None, threads |-> << >>,
     status |-> "Ready", mic_border_color |-> "gray", quit_scheduled |-> FALSE]

(* No other call is running *)
InitOthers ==
    /\ second = NotStarted
    /\ stream = StreamNotStarted
    /\ gui = GuiConstructed

(* The process starts without MAX_AGENT_ITERATIONS in its environment *)
Init ==
    /\ MAX_AGENT_ITERATIONS = default_MAX_AGENT_ITERATIONS
    /\ InitAgent
    /\ InitOthers

(* The process starts with MAX_AGENT_ITERATIONS set in its environment *)
InitConfigured ==
    /\ MAX_AGENT_ITERATIONS \in 1..MaxConfigured
    /\ InitAgent
    /\ InitOthers

config_vars == <<MAX_AGENT_ITERATIONS, max_history, backend>>
other_vars == <<second, stream, gui>>
turn_vars == <<pc, iteration, model_calls, finish_log, tool_calls, tc_index, outcome, returned>>

(* return value: the coroutine ends and its locals go away *)
Return(value) ==
    /\ pc' = "idle"
    /\ outcome' = "returned"
    /\ returned' = value
    /\ iteration' = 0
    /\ tool_calls' = << >>
    /\ tc_index' = 0

(* An exception raised inside the try of lines 119-206 *)
OuterTry(exc) ==
    IF outer_except(exc)
    THEN /\ conversation_history' =
                add_message(conversation_history, max_history, "assistant", error_response, None)
         /\ Return(error_response)
    ELSE /\ pc' = "idle"
         /\ outcome' = "raised"
         /\ returned' = None
         /\ iteration' = 0
         /\ tool_calls' = << >>
         /\ tc_index' = 0
         /\ UNCHANGED conversation_history

(* VoiceAgent.add_message called by the host *)
AddMessage(role, content) ==
    /\ pc = "idle"
    /\ Len(conversation_history) <= MaxLen
    /\ conversation_history' = add_message(conversation_history, max_history, role, content, None)
    /\ UNCHANGED <<system_prompt, config_vars, other_vars, turn_vars>>

(* Mutant: the prompt is written to the history only *)
SetSystemPrompt_history_only(prompt) ==
    /\ pc = "idle"
    /\ conversation_history' = [conversation_history EXCEPT ![1] = SystemMessage(prompt)]
    /\ UNCHANGED <<system_prompt, config_vars, other_vars, turn_vars>>

(* Mutant: the new system message is put in front of the history *)
SetSystemPrompt_insert(prompt) ==
    /\ pc = "idle"
    /\ system_prompt' = prompt
    /\ conversation_history' = <<SystemMessage(prompt)>> \o conversation_history
    /\ UNCHANGED <<config_vars, other_vars, turn_vars>>

(* VoiceAgent.set_system_prompt *)
SetSystemPrompt(prompt) ==
    /\ pc = "idle"
    /\ system_prompt' = prompt
    /\ conversation_history' = [conversation_history EXCEPT ![1] = SystemMessage(prompt)]
    /\ UNCHANGED <<config_vars, other_vars, turn_vars>>

(* VoiceAgent.reset_conversation *)
ResetConversation ==
    /\ pc = "idle"
    /\ conversation_history' = <<SystemMessage(system_prompt)>>
    /\ UNCHANGED <<system_prompt, config_vars, other_vars, turn_vars>>

(* process_user_input, lines 106-113: up to the while loop *)
ProcessUserInput(user_input) ==
    /\ pc = "idle"
    /\ Len(conversation_history) <= MaxLen
    /\ conversation_history' =
           add_message(conversation_history, max_history, "user", user_input, None)
    /\ pc' = "loop"
    /\ iteration' = 0
    /\ model_calls' = 0
    /\ finish_log' = << >>
    /\ tool_calls' = << >>
    /\ tc_index' = 0
    /\ outcome' = "none"
    /\ returned' = None
    /\ UNCHANGED <<system_prompt, config_vars, other_vars>>

(* Mutant: the iteration counter is not advanced *)
CallModel_without_increment ==
    /\ pc = "loop"
    /\ iteration < max_iterations
    /\ model_calls' = model_calls + 1
    /\ pc' = "awaiting"
    /\ UNCHANGED <<system_prompt, conversation_history, config_vars, other_vars, iteration, finish_log,
                   tool_calls, tc_index, outcome, returned>>

(* Lines 115-126: the loop test passes and the model is called *)
CallModel ==
    /\ pc = "loop"
    /\ iteration < max_iterations
    /\ iteration' = iteration + 1
    /\ model_calls' = model_calls + 1
    /\ pc' = "awaiting"
    /\ UNCHANGED <<system_prompt, conversation_history, config_vars, other_vars, finish_log,
                   tool_calls, tc_index, outcome, returned>>

(* Lines 121-126 raise: the backend call fails *)
ModelCallFails ==
    /\ pc = "awaiting"
    /\ finish_log' = Append(finish_log, LogEntry("exception", 0))
    /\ OuterTry(Exc("APIError", "Connection error."))
    /\ UNCHANGED <<system_prompt, config_vars, other_vars, model_calls>>

(* Mutant: the tool-call branch is taken on the finish reason alone; the   *)
(* len() of line 135 raises on None                                        *)
ReceiveCompletion_finish_reason_only(response) ==
    /\ pc = "awaiting"
    /\ finish_log' = Append(finish_log,
                            LogEntry(response.finish_reason, NumToolCalls(response)))
    /\ IF response.finish_reason = "tool_calls" /\ "tool_calls" \notin DOMAIN response
       THEN OuterTry(Exc("TypeError", "object of type 'NoneType' has no len()"))
       ELSE IF response.finish_reason = "tool_calls"
       THEN /\ conversation_history' =
                   Append(conversation_history,
                          Message("assistant", response.content, None, response.tool_calls, None))
            /\ tool_calls' = response.tool_calls
            /\ tc_index' = 1
            /\ pc' = "dispatch"
            /\ UNCHANGED <<iteration, outcome, returned>>
       ELSE IF response.finish_reason = "stop"
       THEN LET final_response == IF Truthy(response.content) THEN response.content
                                  ELSE not_sure_response
            IN /\ conversation_history' =
                      add_message(conversation_history, max_history, "assistant",
                                  final_response, None)
               /\ Return(final_response)
       ELSE /\ conversation_history' =
                   add_message(conversation_history, max_history, "assistant", fallback, None)
            /\ Return(fallback)
    /\ UNCHANGED <<system_prompt, config_vars, other_vars, model_calls>>

(* Mutant: a finish reason other than tool_calls and stop is retried       *)
ReceiveCompletion_retry_other(response) ==
    /\ pc = "awaiting"
    /\ finish_log' = Append(finish_log,
                            LogEntry(response.finish_reason, NumToolCalls(response)))
    /\ IF response.finish_reason = "tool_calls" /\ has_tool_calls(response)
       THEN /\ conversation_history' =
                   Append(conversation_history,
                          Message("assistant", response.content, None, response.tool_calls, None))
            /\ tool_calls' = response.tool_calls
            /\ tc_index' = 1
            /\ pc' = "dispatch"
            /\ UNCHANGED <<iteration, outcome, returned>>
       ELSE IF response.finish_reason = "stop"
       THEN LET final_response == IF Truthy(response.content) THEN response.content
                                  ELSE not_sure_response
            IN /\ conversation_history' =
                      add_message(conversation_history, max_history, "assistant",
                                  final_response, None)
               /\ Return(final_response)
       ELSE /\ pc' = "loop"
            /\ UNCHANGED <<conversation_history, iteration, tool_calls, tc_index,
                           outcome, returned>>
    /\ UNCHANGED <<system_prompt, config_vars, other_vars, model_calls>>

(* Lines 128-152 and 185-200: the completion arrives *)
ReceiveCompletion(response) ==
    /\ pc = "awaiting"
    /\ finish_log' = Append(finish_log,
                            LogEntry(response.finish_reason, NumToolCalls(response)))
    /\ IF response.finish_reason = "tool_calls" /\ has_tool_calls(response)
       THEN /\ conversation_history' =
                   Append(conversation_history,
                          Message("assistant", response.content, None, response.tool_calls, None))
            /\ tool_calls' = response.tool_calls
            /\ tc_index' = 1
            /\ pc' = "dispatch"
            /\ UNCHANGED <<iteration, outcome, returned>>
       ELSE IF response.finish_reason = "stop"
       THEN LET final_response == IF Truthy(response.content) THEN response.content
                                  ELSE not_sure_response
            IN /\ conversation_history' =
                      add_message(conversation_history, max_history, "assistant",
                                  final_response, None)
               /\ Return(final_response)
       ELSE /\ conversation_history' =
                   add_message(conversation_history, max_history, "assistant", fallback, None)
            /\ Return(fallback)
    /\ UNCHANGED <<system_prompt, config_vars, other_vars, model_calls>>

(* Lines 155-180: one pass of the for loop over the tool calls *)
ExecuteToolCall ==
    /\ pc = "dispatch"
    /\ tc_index <= Len(tool_calls)
    /\ LET step == tool_call_step(tool_calls[tc_index])
       IN IF step.raised
          THEN OuterTry(step.exc)
          ELSE /\ conversation_history' = Append(conversation_history, step.value)
               /\ tc_index' = tc_index + 1
               /\ UNCHANGED <<pc, iteration, tool_calls, outcome, returned>>
    /\ UNCHANGED <<system_prompt, config_vars, other_vars, model_calls, finish_log>>

(* Mutant: break instead of continue *)
ContinueLoop_break ==
    /\ pc = "dispatch"
    /\ tc_index > Len(tool_calls)
    /\ pc' = "loop"
    /\ iteration' = max_iterations
    /\ tool_calls' = << >>
    /\ tc_index' = 0
    /\ UNCHANGED <<system_prompt, conversation_history, config_vars, other_vars,
                   model_calls, finish_log, outcome, returned>>

(* Lines 182-183: continue *)
ContinueLoop ==
    /\ pc = "dispatch"
    /\ tc_index > Len(tool_calls)
    /\ pc' = "loop"
    /\ tool_calls' = << >>
    /\ tc_index' = 0
    /\ UNCHANGED <<system_prompt, conversation_history, config_vars, other_vars, iteration,
                   model_calls, finish_log, outcome, returned>>

(* Lines 208-212: the loop test fails *)
MaxIterationsReached ==
    /\ pc = "loop"
    /\ ~(iteration < max_iterations)
    /\ conversation_history' =
           add_message(conversation_history, max_history, "assistant", timeout_response, None)
    /\ Return(timeout_response)
    /\ UNCHANGED <<system_prompt, config_vars, other_vars, model_calls, finish_log>>

Next ==
    \/ \E role \in AddRoles : AddMessage(role, "hi")
    \/ \E prompt \in Prompts : SetSystemPrompt(prompt)
    \/ ResetConversation
    \/ \E user_input \in UserInputs : ProcessUserInput(user_input)
    \/ CallModel
    \/ ModelCallFails
    \/ \E response \in Completions(backend, iteration) : ReceiveCompletion(response)
    \/ ExecuteToolCall
    \/ ContinueLoop
    \/ MaxIterationsReached

Spec == Init /\ [][Next]_vars

(* The steps of a running turn.  The event loop resumes the coroutine, and *)
(* a pending model call ends with a completion or with an exception.       *)
TurnStep ==
    \/ CallModel
    \/ ModelCallFails
    \/ \E response \in Completions(backend, iteration) : ReceiveCompletion(response)
    \/ ExecuteToolCall
    \/ ContinueLoop
    \/ MaxIterationsReached

(* Turns only: the host starts one turn after the other and makes no      *)
(* other call                                                              *)
NextTurn ==
    \/ \E user_input \in UserInputs : ProcessUserInput(user_input)
    \/ TurnStep

SpecFair == Init /\ [][NextTurn]_vars /\ WF_vars(TurnStep)

(* Turns of an agent whose iteration budget is configured *)
SpecConfigured == InitConfigured /\ [][NextTurn]_vars

-----------------------------------------------------------------------------
(* Two calls of process_user_input on one VoiceAgent, as two coroutines of *)
(* one event loop.  The first call is the one of the actions above; the    *)
(* second runs the same code on its own locals, the record second.  The    *)
(* event loop runs a coroutine without interruption up to its next await   *)
(* (line 121) or its return, so a call takes a step only while the other   *)
(* one is suspended there or is not running.                               *)

SecondUserInputs == {"And the weather?"}

Suspended(position) == position \in {"idle", "awaiting"}

(* A step of the first call *)
First(step) == Suspended(second.pc) /\ step

(* return value *)
SecondReturn(value) ==
    second' = [NotStarted EXCEPT !.outcome = "returned", !.returned = value]

(* An exception raised inside the try of lines 119-206 *)
SecondOuterTry(exc) ==
    IF outer_except(exc)
    THEN /\ conversation_history' =
                add_message(conversation_history, max_history, "assistant", error_response, None)
         /\ SecondReturn(error_response)
    ELSE /\ second' = [NotStarted EXCEPT !.outcome = "raised"]
         /\ UNCHANGED conversation_history

(* Lines 106-113 *)
SecondProcessUserInput(user_input) ==
    /\ Suspended(pc)
    /\ second.pc = "idle"
    /\ Len(conversation_history) <= MaxLen
    /\ conversation_history' =
           add_message(conversation_history, max_history, "user", user_input, None)
    /\ second' = [NotStarted EXCEPT !.pc = "loop"]
    /\ UNCHANGED <<system_prompt, config_vars, turn_vars, stream, gui>>

(* Lines 115-126 *)
SecondCallModel ==
    /\ Suspended(pc)
    /\ second.pc = "loop"
    /\ second.iteration < max_iterations
    /\ second' = [second EXCEPT !.iteration = @ + 1, !.pc = "awaiting"]
    /\ UNCHANGED <<system_prompt, conversation_history, config_vars, turn_vars, stream, gui>>

(* Lines 121-126 raise *)
SecondModelCallFails ==
    /\ Suspended(pc)
    /\ second.pc = "awaiting"
    /\ SecondOuterTry(Exc("APIError", "Connection error."))
    /\ UNCHANGED <<system_prompt, config_vars, turn_vars, stream, gui>>

(* Lines 128-152 and 185-200 *)
SecondReceiveCompletion(response) ==
    /\ Suspended(pc)
    /\ second.pc = "awaiting"
    /\ IF response.finish_reason = "tool_calls" /\ has_tool_calls(response)
       THEN /\ conversation_history' =
                   Append(conversation_history,
                          Message("assistant", response.content, None, response.tool_calls, None))
            /\ second' = [second EXCEPT !.tool_calls = response.tool_calls,
                                        !.tc_index = 1, !.pc = "dispatch"]
       ELSE IF response.finish_reason = "stop"
       THEN LET final_response == IF Truthy(response.content) THEN response.content
                                  ELSE not_sure_response
            IN /\ conversation_history' =
                      add_message(conversation_history, max_history, "assistant",
                                  final_response, None)
               /\ SecondReturn(final_response)
       ELSE /\ conversation_history' =
                   add_message(conversation_history, max_history, "assistant", fallback, None)
            /\ SecondReturn(fallback)
    /\ UNCHANGED <<system_prompt, config_vars, turn_vars, stream, gui>>

(* Lines 155-180 *)
SecondExecuteToolCall ==
    /\ second.pc = "dispatch"
    /\ second.tc_index <= Len(second.tool_calls)
    /\ LET step == tool_call_step(second.tool_calls[second.tc_index])
       IN IF step.raised
          THEN SecondOuterTry(step.exc)
          ELSE /\ conversation_history' = Append(conversation_history, step.value)
               /\ second' = [second EXCEPT !.tc_index = @ + 1]
    /\ UNCHANGED <<system_prompt, config_vars, turn_vars, stream, gui>>

(* Lines 182-183 *)
SecondContinueLoop ==
    /\ second.pc = "dispatch"
    /\ second.tc_index > Len(second.tool_calls)
    /\ second' = [second EXCEPT !.pc = "loop", !.tool_calls = << >>, !.tc_index = 0]
    /\ UNCHANGED <<system_prompt, conversation_history, config_vars, turn_vars, stream, gui>>

(* Lines 208-212 *)
SecondMaxIterationsReached ==
    /\ second.pc = "loop"
    /\ ~(second.iteration < max_iterations)
    /\ conversation_history' =
           add_message(conversation_history, max_history, "assistant", timeout_response, None)
    /\ SecondReturn(timeout_response)
    /\ UNCHANGED <<system_prompt, config_vars, turn_vars, stream, gui>>

SecondStep ==
    \/ \E user_input \in SecondUserInputs : SecondProcessUserInput(user_input)
    \/ SecondCallModel
    \/ SecondModelCallFails
    \/ \E response \in Completions(backend, second.iteration) : SecondReceiveCompletion(response)
    \/ SecondExecuteToolCall
    \/ SecondContinueLoop
    \/ SecondMaxIterationsReached

NextTwo ==
    \/ \E user_input \in UserInputs : First(ProcessUserInput(user_input))
    \/ First(CallModel)
    \/ First(ModelCallFails)
    \/ \E response \in Completions(backend, iteration) : First(ReceiveCompletion(response))
    \/ First(ExecuteToolCall)
    \/ First(ContinueLoop)
    \/ First(MaxIterationsReached)
    \/ SecondStep

(* The agent is constructed with the default max_history; the backend asks *)
(* for one tool call per iteration                                         *)
InitDefault ==
    /\ MAX_AGENT_ITERATIONS = default_MAX_AGENT_ITERATIONS
    /\ InitFields
    /\ max_history = default_max_history
    /\ backend = {<<GoodCall>>}
    /\ InitOthers

SpecTwo == InitDefault /\ [][NextTwo]_vars

-----------------------------------------------------------------------------
(* process_user_input_streaming (lines 214-253): an async generator.  Its  *)
(* positions are creating (the await of line 232) and streaming (the async *)
(* for of line 242, between two chunks); yielded are the strings it has    *)
(* handed to its consumer.                                                 *)

Chunks == {"It's ", "2:30 PM."}
streaming_error == "I'm sorry, I encountered an error."

agent_call_vars == <<turn_vars, second, gui>>

(* Lines 225-228 *)
ProcessUserInputStreaming(user_input) ==
    /\ pc = "idle"
    /\ stream.pc = "idle"
    /\ Len(conversation_history) <= MaxLen
    /\ conversation_history' =
           add_message(conversation_history, max_history, "user", user_input, None)
    /\ stream' = [StreamNotStarted EXCEPT !.pc = "creating"]
    /\ UNCHANGED <<system_prompt, config_vars, agent_call_vars>>

(* Lines 251-253: the except clause yields the error string; nothing is    *)
(* appended to the history                                                 *)
StreamExcept ==
    /\ stream' = [stream EXCEPT !.pc = "idle", !.yielded = Append(@, streaming_error)]
    /\ UNCHANGED <<system_prompt, conversation_history, config_vars, agent_call_vars>>

(* Lines 232-238 raise: the backend call fails *)
StreamCreateFails ==
    /\ stream.pc = "creating"
    /\ StreamExcept

(* Lines 232-240: the stream is opened *)
StreamOpened ==
    /\ stream.pc = "creating"
    /\ stream' = [stream EXCEPT !.pc = "streaming", !.full_response = ""]
    /\ UNCHANGED <<system_prompt, conversation_history, config_vars, agent_call_vars>>

(* Lines 242-246: one chunk; content is chunk.choices[0].delta.content     *)
StreamChunk(content) ==
    /\ stream.pc = "streaming"
    /\ Len(stream.yielded) < MaxChunks
    /\ IF Truthy(content)
       THEN stream' = [stream EXCEPT !.full_response = @ \o content,
                                     !.yielded = Append(@, content)]
       ELSE stream' = stream
    /\ UNCHANGED <<system_prompt, conversation_history, config_vars, agent_call_vars>>

(* Line 242 raises: the stream breaks *)
StreamRaises ==
    /\ stream.pc = "streaming"
    /\ StreamExcept

(* Lines 248-249: the stream has ended *)
StreamEnds ==
    /\ stream.pc = "streaming"
    /\ conversation_history' =
           add_message(conversation_history, max_history, "assistant", stream.full_response, None)
    /\ stream' = [stream EXCEPT !.pc = "idle"]
    /\ UNCHANGED <<system_prompt, config_vars, agent_call_vars>>

NextStream ==
    \/ \E user_input \in UserInputs : ProcessUserInputStreaming(user_input)
    \/ StreamCreateFails
    \/ StreamOpened
    \/ \E content \in Chunks \cup {None} : StreamChunk(content)
    \/ StreamRaises
    \/ StreamEnds

SpecStream == Init /\ [][NextStream]_vars

-----------------------------------------------------------------------------
(* main_gui.py: the microphone button and the threads it starts.  The Tk   *)
(* main loop runs _on_mic_button_click; each thread runs                   *)
(* _process_voice_input, whose positions are:                              *)
(*   started    the thread runs, line 246 is not executed yet              *)
(*   listening  in _listen_to_microphone (line 253)                        *)
(*   thinking   in _get_gemini_response (line 280)                         *)
(*   speaking   in _speak (line 289)                                       *)
(*   goodbye    in _speak of the exit branch (line 270)                    *)
(*   finished   the thread has ended                                       *)
(* The model covers the fields that steer the threads and the status       *)
(* display; the text of the conversation log is left out.                  *)

Heard == {"", "goodbye", "what time is it"}

gui_frame == <<system_prompt, conversation_history, config_vars, turn_vars, second, stream>>

Running(threads) == {t \in 1..Len(threads) : threads[t] # "finished"}

(* _on_mic_button_click (lines 228-235) *)
OnMicButtonClick ==
    /\ Len(gui.threads) < MaxThreads
    /\ IF gui.is_listening
       THEN UNCHANGED gui
       ELSE gui' = [gui EXCEPT !.processing_thread = Len(gui.threads) + 1,
                               !.threads = Append(@, "started")]
    /\ UNCHANGED gui_frame

(* Lines 246-251: is_listening = True, the display turns red *)
ThreadBegins(t) ==
    /\ gui.threads[t] = "started"
    /\ gui' = [gui EXCEPT !.is_listening = TRUE, !.mic_border_color = "red",
                           !.status = "Listening...", !.threads[t] = "listening"]
    /\ UNCHANGED gui_frame

(* Lines 253-282: _listen_to_microphone returns user_text *)
ThreadHeard(t, user_text) ==
    /\ gui.threads[t] = "listening"
    /\ IF user_text = ""
       THEN \* lines 255-259, then the finally clause
            gui' = [gui EXCEPT !.mic_border_color = "gray", !.status = "Ready",
                               !.is_listening = FALSE, !.threads[t] = "finished"]
       ELSE IF user_text = "goodbye"
       THEN \* lines 265-269
            gui' = [gui EXCEPT !.mic_border_color = "green", !.status = "Speaking...",
                               !.threads[t] = "goodbye"]
       ELSE \* lines 277-280
            gui' = [gui EXCEPT !.mic_border_color = "blue",
                               !.status = "Processing with Gemini...",
                               !.threads[t] = "thinking"]
    /\ UNCHANGED gui_frame

(* Lines 270-274: the goodbye is spoken, quit is scheduled; finally *)
ThreadSaidGoodbye(t) ==
    /\ gui.threads[t] = "goodbye"
    /\ gui' = [gui EXCEPT !.quit_scheduled = TRUE, !.is_listening = FALSE,
                           !.threads[t] = "finished"]
    /\ UNCHANGED gui_frame

(* Lines 280-289: _get_gemini_response returns, the display turns green *)
ThreadGotResponse(t) ==
    /\ gui.threads[t] = "thinking"
    /\ gui' = [gui EXCEPT !.mic_border_color = "green", !.status = "Speaking...",
                           !.threads[t] = "speaking"]
    /\ UNCHANGED gui_frame

(* Lines 289-293: _speak returns, the display is reset; finally *)
ThreadSpoke(t) ==
    /\ gui.threads[t] = "speaking"
    /\ gui' = [gui EXCEPT !.mic_border_color = "gray", !.status = "Ready",
                           !.is_listening = FALSE, !.threads[t] = "finished"]
    /\ UNCHANGED gui_frame

(* Lines 295-301: a widget call of the try block raises (Tk is called from *)
(* a thread that is not the main thread); except, then finally             *)
ThreadRaises(t) ==
    /\ gui.threads[t] \in {"listening", "thinking", "speaking", "goodbye"}
    /\ gui' = [gui EXCEPT !.mic_border_color = "gray", !.status = "Error - Ready",
                           !.is_listening = FALSE, !.threads[t] = "finished"]
    /\ UNCHANGED gui_frame

NextGui ==
    \/ OnMicButtonClick
    \/ \E t \in 1..Len(gui.threads) : ThreadBegins(t)
    \/ \E t \in 1..Len(gui.threads) : \E user_text \in Heard : ThreadHeard(t, user_text)
    \/ \E t \in 1..Len(gui.threads) : ThreadSaidGoodbye(t)
    \/ \E t \in 1..Len(gui.threads) : ThreadGotResponse(t)
    \/ \E t \in 1..Len(gui.threads) : ThreadSpoke(t)
    \/ \E t \in 1..Len(gui.threads) : ThreadRaises(t)

SpecGui == InitDefault /\ [][NextGui]_vars

TypeOK ==
    /\ max_history \in (0..MaxMaxHistory) \cup {default_max_history}
    /\ pc \in {"idle", "loop", "awaiting", "dispatch"}
    /\ iteration \in 0..max_iterations
    /\ outcome \in {"none", "returned", "raised"}

-----------------------------------------------------------------------------
(* Reading the history *)

Last(h) == h[Len(h)]

(* s starts with prefix *)
StartsWith(s, prefix) == Len(s) >= Len(prefix) /\ SubSeq(s, 1, Len(prefix)) = prefix

(* sub occurs in s *)
Contains(s, sub) == \E i \in 1..Len(s) : i + Len(sub) - 1 <= Len(s) /\ SubSeq(s, i, i + Len(sub) - 1) = sub

(* content is the JSON text of a result whose status is error *)
StatusError(content) == StartsWith(content, "{\"status\": \"error\"")

(* The for loop is about to process tool_calls[tc_index] *)
AtToolCall == pc = "dispatch" /\ tc_index \in 1..Len(tool_calls)

CurrentName == tool_calls[tc_index].function.name
CurrentArgs == json_loads(tool_calls[tc_index].function.arguments)

(* The step appends exactly one tool message for the current tool call, a  *)
(* status=error result, and the for loop goes on to the next tool call     *)
AppendsErrorResultAndGoesOn ==
    /\ Len(conversation_history') = Len(conversation_history) + 1
    /\ SubSeq(conversation_history', 1, Len(conversation_history)) = conversation_history
    /\ Last(conversation_history').role = "tool"
    /\ Last(conversation_history').tool_call_id = tool_calls[tc_index].id
    /\ StatusError(Last(conversation_history').content)
    /\ pc' = "dispatch"
    /\ tool_calls' = tool_calls
    /\ tc_index' = tc_index + 1
    /\ outcome' = "none"

(* The for loop has just processed tool_calls[tc_index - 1] and appended   *)
(* its status=error tool message                                           *)
AfterErrorResult ==
    /\ pc = "dispatch"
    /\ tc_index \in 2..(Len(tool_calls) + 1)
    /\ Last(conversation_history).role = "tool"
    /\ Last(conversation_history).tool_call_id = tool_calls[tc_index - 1].id
    /\ StatusError(Last(conversation_history).content)

PreviousName == tool_calls[tc_index - 1].function.name
PreviousArgs == json_loads(tool_calls[tc_index - 1].function.arguments)

-----------------------------------------------------------------------------
(* C1: process_user_input never raises and always returns a string: no    *)
(* call ends by an exception reaching the caller, and a call that has      *)
(* returned has returned a str, whatever the backend answered, whatever    *)
(* tool calls it asked for and however the tools ended.                    *)
C1_NeverRaisesReturnsString ==
    /\ outcome # "raised"
    /\ outcome = "returned" => (returned \in STRING /\ returned # None)

(* A turn that executed a tool and was then ended by an exception has      *)
(* returned the error string                                               *)
C1_Witness ==
    /\ outcome = "returned"
    /\ returned = error_response
    /\ \E i \in 1..Len(conversation_history) : conversation_history[i].role = "tool"

(* C2: if the backend answers every call of a turn with finish reason      *)
(* tool_calls and a non-empty tool-call list, the turn makes exactly       *)
(* max_iterations model calls and returns the "unable to complete"         *)
(* fallback.                                                               *)
C2_IterationBound ==
    (/\ outcome = "returned"
     /\ finish_log # << >>
     /\ \A i \in 1..Len(finish_log) :
            finish_log[i].finish_reason = "tool_calls" /\ finish_log[i].n_tool_calls > 0)
    => (model_calls = max_iterations /\ returned = timeout_response)

(* C3: in every reachable state, the middle of a turn included, the        *)
(* history holds at most 1 + max_history messages and starts with the      *)
(* system message.  Stated for max_history >= 1; max_history = 0 is the    *)
(* case of C4.                                                             *)
C3_HistoryBoundedEverywhere ==
    max_history >= 1 =>
        /\ Len(conversation_history) <= 1 + max_history
        /\ conversation_history[1] = SystemMessage(system_prompt)

(* C4: for every max_history >= 0, after each add_message call with role   *)
(* user or assistant the history has at most max_history + 1 messages and  *)
(* position 0 holds the current system message.                            *)
C4_TrimInvariant ==
    [][(\E role \in AddRoles : AddMessage(role, "hi"))
        => (/\ Len(conversation_history') <= max_history + 1
            /\ conversation_history'[1] = SystemMessage(system_prompt))]_vars

(* C5: in every reachable state the history holds exactly one message of   *)
(* role system, at position 0.                                             *)
C5_SingleSystemMessage ==
    /\ conversation_history[1].role = "system"
    /\ \A i \in 2..Len(conversation_history) : conversation_history[i].role # "system"

(* C6: when the requested tool raises during its invocation, the step      *)
(* appends exactly one tool message for that invocation, a status=error    *)
(* result carrying the exception's message, and goes on with the remaining *)
(* invocations: the turn is not ended and nothing reaches the caller.      *)
C6_ToolExceptionIsolated ==
    [][(/\ AtToolCall
        /\ ~CurrentArgs.raised
        /\ CurrentArgs.value.type = "dict"
        /\ ~get_tool_function(CurrentName).raised
        /\ Call(CurrentName, CurrentArgs.value).raised)
       => (/\ AppendsErrorResultAndGoesOn
           /\ Contains(Last(conversation_history').content,
                       Call(CurrentName, CurrentArgs.value).exc.msg))]_vars

(* The first of two tool calls raised inside the tool, its error result is *)
(* in the history and the second call is still to be executed              *)
C6_Witness ==
    /\ AfterErrorResult
    /\ tc_index <= Len(tool_calls)
    /\ PreviousArgs.value.type = "dict"
    /\ ~get_tool_function(PreviousName).raised
    /\ Call(PreviousName, PreviousArgs.value).raised

(* C7: when the raw arguments of a tool call are malformed JSON, the step  *)
(* appends a status=error tool message for that invocation id and goes on  *)
(* with the remaining invocations; the turn is not aborted.                *)
C7_MalformedArgumentsRecovered ==
    [][(AtToolCall /\ CurrentArgs.raised) => AppendsErrorResultAndGoesOn]_vars

(* C8: when the raw arguments deserialize to a value that is no mapping,   *)
(* the invocation yields a status=error tool message and the turn goes on. *)
C8_NonMappingArgumentsRecovered ==
    [][(AtToolCall /\ ~CurrentArgs.raised /\ CurrentArgs.value.type # "dict")
       => AppendsErrorResultAndGoesOn]_vars

(* A tool call whose arguments parsed to a list or to null has been        *)
(* processed and its error result is in the history                        *)
C8_Witness ==
    /\ AfterErrorResult
    /\ ~PreviousArgs.raised
    /\ PreviousArgs.value.type \in {"list", "NoneType"}

(* C9: when the model requests a name that is not a registered tool, the   *)
(* step appends a status=error tool message whose text identifies the      *)
(* name, and the turn goes on.                                             *)
C9_UnknownToolIsError ==
    [][(AtToolCall /\ ~CurrentArgs.raised /\ CurrentName \notin SchemaNames)
       => (/\ AppendsErrorResultAndGoesOn
           /\ Contains(Last(conversation_history').content, CurrentName))]_vars

(* C10: get_tool_function fails for every requested name that is not one   *)
(* of the tools advertised in TOOL_SCHEMAS.                                *)
C10_ResolveOnlyRegistered ==
    AtToolCall => (CurrentName \notin SchemaNames => get_tool_function(CurrentName).raised)

-----------------------------------------------------------------------------
(* C11: in every iteration in which the model requests tool calls t1..tk,  *)
(* when the for loop over them is left the history ends with the assistant *)
(* tool-call message followed by exactly k tool messages, the i-th         *)
(* carrying the id and the name of ti.                                     *)
ToolResultsInOrder(h, tcs) ==
    LET k == Len(tcs)
    IN /\ Len(h) > k + 1
       /\ h[Len(h) - k].role = "assistant"
       /\ h[Len(h) - k].tool_calls = tcs
       /\ \A i \in 1..k :
              /\ h[Len(h) - k + i].role = "tool"
              /\ h[Len(h) - k + i].tool_call_id = tcs[i].id
              /\ h[Len(h) - k + i].name = tcs[i].function.name

C11_OneResultPerCallInOrder ==
    [][(pc = "dispatch" /\ pc' # "dispatch")
       => ToolResultsInOrder(conversation_history, tool_calls)]_vars

(* C12: after the tool results of any iteration have been appended, the    *)
(* last iteration of the budget included, the model is called again before *)
(* the turn returns.                                                       *)
C12_DispatchFollowedByModelCall ==
    [][(pc = "loop" /\ model_calls >= 1)
       => (pc' = "awaiting" /\ model_calls' = model_calls + 1)]_vars

(* C12 as amended: after the tool results of one of the first              *)
(* max_iterations - 1 iterations the model is called again with the        *)
(* history that holds those results; after the tool results of iteration   *)
(* max_iterations the turn returns the "unable to complete" fallback with  *)
(* no further model call.                                                  *)
C12_DispatchFollowedByModelCallWithinBudget ==
    [][(pc = "loop" /\ model_calls >= 1)
       => IF model_calls < 5
          THEN /\ pc' = "awaiting"
               /\ model_calls' = model_calls + 1
               /\ conversation_history' = conversation_history
               /\ Last(conversation_history).role = "tool"
          ELSE /\ pc' = "idle"
               /\ model_calls' = model_calls
               /\ returned' = "I apologize, but I'm having trouble completing that request."]_vars

(* The tool results of the first iteration are in the history and the      *)
(* model is being called for the second time                               *)
C12_Witness ==
    /\ pc = "awaiting"
    /\ model_calls = 2
    /\ Last(conversation_history).role = "tool"

(* C13: on finish reason stop the turn takes the message text, or the      *)
(* fixed "not sure" string when the text is empty or null, appends it as   *)
(* an assistant message, returns the same string and calls the model no    *)
(* more.                                                                   *)
C13_StopReturnsText ==
    [][\A response \in Completions(backend, iteration) :
         (response.finish_reason = "stop" /\ ReceiveCompletion(response))
         => LET text == IF response.content \in {"", None}
                        THEN "I'm not sure how to respond to that."
                        ELSE response.content
            IN /\ returned' = text
               /\ outcome' = "returned"
               /\ pc' = "idle"
               /\ model_calls' = model_calls
               /\ Last(conversation_history').role = "assistant"
               /\ Last(conversation_history').content = text
               /\ Last(conversation_history').tool_calls = << >>]_vars

(* A turn answered with stop and no text has returned the "not sure"       *)
(* string, which is the last message                                       *)
C13_Witness ==
    /\ outcome = "returned"
    /\ returned = not_sure_response
    /\ Last(finish_log).finish_reason = "stop"
    /\ Last(conversation_history).content = not_sure_response

(* C14: on a finish reason other than tool_calls and stop the turn appends *)
(* the fixed apology as an assistant message and returns it at once: no    *)
(* tool is executed and no further model call is made.                     *)
C14_OtherFinishReasonFallsBack ==
    [][(/\ pc = "awaiting"
        /\ Len(finish_log') = Len(finish_log) + 1
        /\ Last(finish_log').finish_reason \notin {"tool_calls", "stop", "exception"})
       => (/\ returned' = "I apologize, but I encountered an issue processing your request."
           /\ outcome' = "returned"
           /\ pc' = "idle"
           /\ model_calls' = model_calls
           /\ Last(conversation_history').role = "assistant"
           /\ Last(conversation_history').content = returned'
           /\ \A i \in 1..Len(conversation_history') :
                  conversation_history'[i].role = "tool"
                  => \E j \in 1..Len(conversation_history) :
                         conversation_history[j] = conversation_history'[i])]_vars

(* A turn whose second model call ended with finish reason length, after   *)
(* a tool iteration, has returned the apology                              *)
C14_Witness ==
    /\ outcome = "returned"
    /\ Len(finish_log) = 2
    /\ Last(finish_log).finish_reason = "length"
    /\ returned = fallback

-----------------------------------------------------------------------------
(* The step in which the pending model call fails *)
ModelCallFailsStep ==
    /\ pc = "awaiting"
    /\ Len(finish_log') = Len(finish_log) + 1
    /\ Last(finish_log').finish_reason = "exception"

(* The number of messages the current turn has appended so far, while the  *)
(* model is being called: the user message, and for every earlier          *)
(* iteration the assistant tool-call message and its tool messages         *)
RECURSIVE TurnMessages(_)
TurnMessages(log) ==
    IF log = << >> THEN 1
    ELSE 1 + log[1].n_tool_calls + TurnMessages(Tail(log))

Min(a, b) == IF a < b THEN a ELSE b

(* h2 is h1 followed by one assistant message with this content, with      *)
(* nothing of the last n messages of h1 lost                               *)
KeepsLast(h1, h2, n, content) ==
    /\ Len(h2) > n
    /\ Last(h2).role = "assistant"
    /\ Last(h2).content = content
    /\ Last(h2).tool_calls = << >>
    /\ SubSeq(h2, Len(h2) - n, Len(h2) - 1) = SubSeq(h1, Len(h1) - n + 1, Len(h1))

ErrorText == "I'm sorry, I encountered an error while processing your request."

(* C15: when a model call fails the turn is ended at once, without retry   *)
(* or further model call: the error string is appended as an assistant     *)
(* message and returned, and the messages the turn appended before stay in *)
(* the history.                                                            *)
C15_BackendFailureKeepsTurnMessages ==
    [][ModelCallFailsStep
       => (/\ pc' = "idle"
           /\ outcome' = "returned"
           /\ returned' = ErrorText
           /\ model_calls' = model_calls
           /\ KeepsLast(conversation_history, conversation_history',
                        TurnMessages(finish_log), ErrorText))]_vars

(* C15 as amended: the messages appended before stay unless the trim of    *)
(* add_message evicts them: of the history before the failure, at least    *)
(* the last max_history - 1 messages (all of it, if it is shorter) stay,   *)
(* in order, directly before the error message.                            *)
C15_BackendFailureKeepsRecentMessages ==
    [][ModelCallFailsStep
       => (/\ pc' = "idle"
           /\ outcome' = "returned"
           /\ returned' = ErrorText
           /\ model_calls' = model_calls
           /\ KeepsLast(conversation_history, conversation_history',
                        Min(Len(conversation_history),
                            IF max_history >= 1 THEN max_history - 1 ELSE 0),
                        ErrorText))]_vars

(* The third model call of a turn has failed after two iterations with     *)
(* tool calls, and the turn has returned the error string                  *)
C15_Witness ==
    /\ outcome = "returned"
    /\ returned = error_response
    /\ Len(finish_log) = 3
    /\ Last(finish_log).finish_reason = "exception"
    /\ model_calls = 3

(* C16: after reset_conversation the history is exactly one message, the   *)
(* system message holding the current system prompt (the one position 0    *)
(* held before the reset); a reset right after a reset changes nothing.    *)
C16_ResetGivesSystemMessageOnly ==
    [][ResetConversation
       => (/\ conversation_history' = <<SystemMessage(system_prompt)>>
           /\ conversation_history'[1].content = conversation_history[1].content
           /\ system_prompt' = system_prompt
           /\ (Len(conversation_history) = 1 => UNCHANGED vars))]_vars

(* The history has been reset after a turn and a set_system_prompt call    *)
C16_Witness ==
    /\ pc = "idle"
    /\ outcome = "returned"
    /\ system_prompt \in Prompts
    /\ conversation_history = <<SystemMessage(system_prompt)>>

(* C17: set_system_prompt(text) replaces the message at position 0 with a  *)
(* system message holding text and leaves the length of the history and    *)
(* every message at positions >= 1 unchanged.                              *)
C17_SetSystemPromptFrame ==
    [][\A prompt \in Prompts :
         SetSystemPrompt(prompt)
         => (/\ conversation_history'[1].role = "system"
             /\ conversation_history'[1].content = prompt
             /\ Len(conversation_history') = Len(conversation_history)
             /\ \A i \in 2..Len(conversation_history) :
                    conversation_history'[i] = conversation_history[i])]_vars

(* The prompt has been replaced in a history that holds other messages     *)
C17_Witness ==
    /\ pc = "idle"
    /\ Len(conversation_history) >= 3
    /\ conversation_history[1].content \in Prompts
    /\ conversation_history[2].role # "system"

(* C18: in a turn on a fresh conversation in which the backend first       *)
(* requests one tool call and then stops with text T, the history bound    *)
(* not being reached, process_user_input returns T and the final history   *)
(* is system, user, assistant with the tool call, tool with the same       *)
(* invocation id, assistant with T.                                        *)
C18_RoundTrip ==
    [][\A response \in Completions(backend, iteration) :
         (/\ response.finish_reason = "stop"
          /\ response.content \in FinalTexts
          /\ Len(finish_log) = 1
          /\ finish_log[1] = LogEntry("tool_calls", 1)
          /\ Len(conversation_history) = 4
          /\ Len(conversation_history) + 1 <= max_history + 1
          /\ ReceiveCompletion(response))
         => (/\ returned' = response.content
             /\ outcome' = "returned"
             /\ Len(conversation_history') = 5
             /\ [i \in 1..5 |-> conversation_history'[i].role]
                   = <<"system", "user", "assistant", "tool", "assistant">>
             /\ Len(conversation_history'[3].tool_calls) = 1
             /\ conversation_history'[4].tool_call_id = conversation_history'[3].tool_calls[1].id
             /\ conversation_history'[4].tool_call_id # None
             /\ conversation_history'[5].content = response.content
             /\ conversation_history'[5].tool_calls = << >>)]_vars

(* The round trip has happened: five messages, the answer returned         *)
C18_Witness ==
    /\ outcome = "returned"
    /\ returned \in FinalTexts
    /\ finish_log = <<LogEntry("tool_calls", 1), LogEntry("stop", 0)>>
    /\ Len(conversation_history) = 5
    /\ conversation_history[4].role = "tool"
    /\ conversation_history[5].content = returned

-----------------------------------------------------------------------------
(* The number of assistant messages of h *)
AssistantCount(h) == Cardinality({i \in 1..Len(h) : h[i].role = "assistant"})

TerminalStrings ==
    FinalTexts \cup {"I'm not sure how to respond to that.",
                     "I apologize, but I encountered an issue processing your request.",
                     "I'm sorry, I encountered an error while processing your request.",
                     "I apologize, but I'm having trouble completing that request."}

(* C19: a turn terminates, whatever the backend and the tools do: the      *)
(* model is called at most max_iterations times in one call of             *)
(* process_user_input, the step that ends the turn returns one of the      *)
(* terminal strings and appends it as the one final assistant message, and *)
(* every turn that has started ends.                                       *)
C19_TurnTerminates ==
    /\ [](model_calls <= 5)
    /\ [][(pc # "idle" /\ pc' = "idle")
          => (/\ outcome' = "returned"
              /\ returned' \in TerminalStrings
              /\ Last(conversation_history').role = "assistant"
              /\ Last(conversation_history').content = returned'
              /\ Last(conversation_history').tool_calls = << >>
              /\ AssistantCount(conversation_history')
                    <= AssistantCount(conversation_history) + 1)]_vars
    /\ (pc # "idle" ~> pc = "idle")

(* A turn has used the whole budget of model calls and has ended with the  *)
(* "unable to complete" string                                             *)
C19_Witness ==
    /\ pc = "idle"
    /\ outcome = "returned"
    /\ model_calls = max_iterations
    /\ returned = timeout_response
    /\ Last(conversation_history).content = timeout_response

(* C20: execute_system_command returns a status=error result for every     *)
(* command and runs nothing; a model request that names it resolves to it  *)
(* through get_tool_function, and the step appends that refusal, echoing   *)
(* the command, and changes nothing but the history and the loop position. *)
C20_SystemCommandDisabled ==
    /\ ~get_tool_function("execute_system_command").raised
    /\ [][(/\ AtToolCall
           /\ CurrentName = "execute_system_command"
           /\ ~CurrentArgs.raised
           /\ CurrentArgs.value.type = "dict"
           /\ CurrentArgs.value.keys = {"command"})
          => (/\ AppendsErrorResultAndGoesOn
              /\ Contains(Last(conversation_history').content,
                          "System command execution is disabled for security reasons.")
              /\ Contains(Last(conversation_history').content,
                          CurrentArgs.value.values["command"])
              /\ UNCHANGED <<system_prompt, config_vars, other_vars, iteration, model_calls,
                             finish_log, returned>>)]_vars

(* The model has requested execute_system_command with the command         *)
(* rm -rf / and the refusal is in the history                              *)
C20_Witness ==
    /\ AfterErrorResult
    /\ PreviousName = "execute_system_command"
    /\ PreviousArgs.value.values["command"] = "rm -rf /"
    /\ Contains(Last(conversation_history).content, "disabled")

-----------------------------------------------------------------------------
(* Every assistant message of h that carries tool calls is followed, for   *)
(* each of its invocation ids, by a tool message with that id              *)
NoDanglingToolCall(h) ==
    \A i \in 1..Len(h) :
        (h[i].role = "assistant" /\ h[i].tool_calls # << >>)
        => \A k \in 1..Len(h[i].tool_calls) :
               \E j \in (i + 1)..Len(h) :
                   h[j].role = "tool" /\ h[j].tool_call_id = h[i].tool_calls[k].id

(* C21: whenever process_user_input yields control, at the suspension      *)
(* point of a model call or by returning, the history holds no assistant   *)
(* tool-call message that lacks the tool message of one of its invocation  *)
(* ids.                                                                    *)
C21_NoDanglingToolCall ==
    pc \in {"idle", "awaiting"} => NoDanglingToolCall(conversation_history)

(* The step is an add_message(role, content) call that grows the history   *)
(* beyond 1 + max_history entries and leaves H[0] followed by the last     *)
(* max_history entries of H[1..], H being the history with the message     *)
(* appended; a call that does not grow it that far is not constrained      *)
TrimsToNewest(role, content) ==
    LET H == Append(conversation_history, Message(role, content, None, << >>, None))
        rest == Tail(H)
    IN Len(H) > 1 + max_history
       => conversation_history' =
              <<H[1]>> \o SubSeq(rest, Len(rest) - max_history + 1, Len(rest))

(* C22: when add_message grows the history H beyond 1 + max_history        *)
(* entries, the result is H[0] followed by the last max_history entries of *)
(* H[1..] in their order; this for the calls of the host and for the calls *)
(* process_user_input makes (the user message, the final assistant         *)
(* message).                                                               *)
C22_TrimKeepsNewest ==
    [][/\ \A role \in AddRoles : AddMessage(role, "hi") => TrimsToNewest(role, "hi")
       /\ \A user_input \in UserInputs :
              ProcessUserInput(user_input) => TrimsToNewest("user", user_input)
       /\ (pc # "idle" /\ pc' = "idle" /\ outcome' = "returned")
              => TrimsToNewest("assistant", returned')]_vars

(* Every tool message of h has, somewhere before it, an assistant message  *)
(* whose tool calls hold its tool_call_id                                  *)
ToolResultHasRequest(h) ==
    \A j \in 1..Len(h) :
        h[j].role = "tool"
        => \E i \in 1..(j - 1) :
               /\ h[i].role = "assistant"
               /\ \E k \in 1..Len(h[i].tool_calls) :
                      h[i].tool_calls[k].id = h[j].tool_call_id

(* C25: after every sequence of completed turns each tool message of the   *)
(* history is preceded by the assistant message that requested it: the     *)
(* trim never evicts an assistant tool-call message and keeps one of its   *)
(* tool results.                                                           *)
C25_ToolResultHasRequest ==
    pc = "idle" => ToolResultHasRequest(conversation_history)

(* C27: when a call of process_user_input returns R, the last message of   *)
(* the history is an assistant message without tool calls whose content is *)
(* R, for every max_history and every way the turn ends.                   *)
C27_ReturnedIsLastMessage ==
    [][(pc # "idle" /\ pc' = "idle" /\ outcome' = "returned")
       => (/\ Last(conversation_history') =
                  Message("assistant", returned', None, << >>, None)
           /\ returned' \in STRING)]_vars

(* A turn with tool calls has returned with max_history = 1: the trim has  *)
(* cut the history down to the system message and the returned string      *)
C27_Witness ==
    /\ pc = "idle"
    /\ outcome = "returned"
    /\ max_history = 1
    /\ Len(finish_log) >= 2
    /\ Len(conversation_history) = 2
    /\ Last(conversation_history).content = returned

(* C26: when the backend answers with finish reason tool_calls and an      *)
(* empty or missing tool-call list, the turn executes no tool, appends no  *)
(* assistant tool-call message and ends with the fixed apology, appended   *)
(* as the last message and returned.                                       *)
C26_ToolCallsWithoutListFallsBack ==
    [][\A response \in Completions(backend, iteration) :
         (/\ response.finish_reason = "tool_calls"
          /\ (\/ "tool_calls" \notin DOMAIN response
              \/ response.tool_calls = << >>)
          /\ ReceiveCompletion(response))
         => (/\ returned' = "I apologize, but I encountered an issue processing your request."
             /\ outcome' = "returned"
             /\ pc' = "idle"
             /\ model_calls' = model_calls
             /\ Last(conversation_history') = Message("assistant", returned', None, << >>, None)
             /\ \A i \in 1..Len(conversation_history') :
                    (\/ conversation_history'[i].role = "tool"
                     \/ conversation_history'[i].tool_calls # << >>)
                    => \E j \in 1..Len(conversation_history) :
                           conversation_history[j] = conversation_history'[i])]_vars

(* The second model call of a turn was answered with finish reason         *)
(* tool_calls and no tool call, and the turn has returned the apology      *)
C26_Witness ==
    /\ outcome = "returned"
    /\ Len(finish_log) = 2
    /\ Last(finish_log) = LogEntry("tool_calls", 0)
    /\ returned = fallback
    /\ Last(conversation_history).content = fallback

(* The parsed arguments conform to the schema of the advertised tool name: *)
(* a mapping whose keys are string-typed properties of the schema (every   *)
(* value of ArgBlobs is a string) and include the required ones            *)
SchemaConforming(name, args) ==
    /\ name \in SchemaNames
    /\ ~args.raised
    /\ args.value.type = "dict"
    /\ args.value.keys \subseteq SchemaParameters[name].strings
    /\ SchemaParameters[name].required \subseteq args.value.keys

(* C29: every tool name advertised in TOOL_SCHEMAS resolves through        *)
(* get_tool_function to a ToolBox callable, and a model request for an     *)
(* advertised tool with schema-conforming arguments yields one tool        *)
(* message that is no unknown-tool error (no AttributeError text); the     *)
(* loop goes on.                                                           *)
C29_AdvertisedToolsResolve ==
    /\ \A name \in SchemaNames :
           /\ ~get_tool_function(name).raised
           /\ get_tool_function(name).value \in DOMAIN ToolBox
    /\ [][(AtToolCall /\ SchemaConforming(CurrentName, CurrentArgs))
          => (/\ Last(conversation_history').role = "tool"
              /\ Last(conversation_history').tool_call_id = tool_calls[tc_index].id
              /\ Last(conversation_history').name = CurrentName
              /\ ~Contains(Last(conversation_history').content, "has no attribute")
              /\ pc' = "dispatch"
              /\ tc_index' = tc_index + 1)]_vars

(* The model has requested calculate with a conforming argument and the    *)
(* result of the tool is in the history                                    *)
C29_Witness ==
    /\ pc = "dispatch"
    /\ tc_index \in 2..(Len(tool_calls) + 1)
    /\ PreviousName = "calculate"
    /\ SchemaConforming(PreviousName, PreviousArgs)
    /\ Last(conversation_history).role = "tool"
    /\ Last(conversation_history).name = "calculate"
    /\ Contains(Last(conversation_history).content, "\"result\": 4")

(* C23: the iteration budget is configurable: for every configured value   *)
(* of MAX_AGENT_ITERATIONS a turn makes at most that many model calls, and *)
(* a turn that stops for the budget has made exactly that many.            *)
C23_BudgetIsConfigured ==
    /\ model_calls <= MAX_AGENT_ITERATIONS
    /\ (outcome = "returned" /\ returned = timeout_response)
           => model_calls = MAX_AGENT_ITERATIONS

(* C24: when two calls of process_user_input run concurrently on one       *)
(* VoiceAgent, access to the history is serialized: while a turn is        *)
(* running, from its user message to its final assistant message, the      *)
(* other call appends nothing to the history.                              *)
C24_TurnsNotInterleaved ==
    [][/\ (pc # "idle" /\ second' # second)
              => conversation_history' = conversation_history
       /\ (second.pc # "idle" /\ <<pc, iteration, tool_calls, tc_index>>'
                                     # <<pc, iteration, tool_calls, tc_index>>)
              => conversation_history' = conversation_history]_vars

(* No two neighbours in h are user messages *)
NoAdjacentUserMessages(h) ==
    \A i \in 1..(Len(h) - 1) : ~(h[i].role = "user" /\ h[i + 1].role = "user")

(* C28: when a turn of process_user_input_streaming finishes, the stream   *)
(* completed or the backend call or the stream having raised, the last     *)
(* message of the history is an assistant message that follows the turn's  *)
(* user message, so that the user messages of successive turns are never   *)
(* adjacent.                                                               *)
C28_StreamingTurnEndsWithAssistant ==
    /\ []NoAdjacentUserMessages(conversation_history)
    /\ [][(stream.pc # "idle" /\ stream'.pc = "idle")
          => Last(conversation_history').role = "assistant"]_vars

(* C30: in the basic GUI at most one voice-processing thread runs at a     *)
(* time: a click that arrives while an earlier thread has been started and *)
(* has not finished starts no second thread.                               *)
C30_OneProcessingThread ==
    Cardinality(Running(gui.threads)) <= 1

====
